---- MODULE Spec2Model ----
(***************************************************************************)
(* Events-management API (Django REST framework): users, profiles, events, *)
(* RSVPs and reviews.  The store is the relational database; every table   *)
(* is a function from primary key to row.  Each request handler of         *)
(* events/views.py is one action; the handlers whose read and write are    *)
(* separate database round trips (rsvp, event update, review create) are   *)
(* split at that boundary so that concurrent requests interleave there.    *)
(* Text fields that no handler branches on (title, description, location,  *)
(* bio) are left out of the rows.                                          *)
(***************************************************************************)
EXTENDS Integers, FiniteSets, Sequences, TLC

VARIABLES users, profiles, events, rsvps, reviews, nextId, inflight, resp

vars == <<users, profiles, events, rsvps, reviews, nextId, inflight, resp>>

store == <<users, profiles, events, rsvps, reviews>>

(* ------------------------------ bounds -------------------------------- *)

MaxUsers == 2

MaxEvents == 1

MaxRsvps == 2

MaxReviews == 2

MaxTime == 3

MaxInflight == 2

(* ----------------------------- constants ------------------------------ *)

\* request.user of a request without credentials (AnonymousUser)
Anonymous == 0

\* Python None for a datetime: falsy in "data.get('start_time') or ..."
NoTime == 0

STATUS_CHOICES == {"Going", "Maybe", "Not Going"}

DefaultStatus == "Maybe"

MinRating == 1

MaxRating == 5

SAFE_METHODS == {"GET", "HEAD", "OPTIONS"}

(* ------------------------------ helpers ------------------------------- *)

\* 'f' in data, for a request body or validated_data dict
Has(d, f) == f \in DOMAIN d

\* data.get(f, dflt)
Get(d, f, dflt) == IF Has(d, f) THEN d[f] ELSE dflt

is_authenticated(c) == c # Anonymous

\* Model.save(): UPDATE the row with this primary key, INSERT it when the
\* UPDATE matched no row.
Save(table, pk, row) ==
    [k \in DOMAIN table \cup {pk} |-> IF k = pk THEN row ELSE table[k]]

\* QuerySet.delete() of the rows with primary keys in S
Remove(table, S) == [k \in DOMAIN table \ S |-> table[k]]

\* ModelSerializer.update: setattr(instance, attr, value) for every
\* validated attribute
Apply(inst, d, fields) ==
    [f \in DOMAIN inst |-> IF f \in fields /\ Has(d, f) THEN d[f] ELSE inst[f]]

NoResp == [op |-> "none", caller |-> Anonymous, pk |-> 0, status |-> 0, body |-> {}]

Response(op, c, pk, status, body) ==
    [op |-> op, caller |-> c, pk |-> pk, status |-> status, body |-> body]

\* The typed outcome a transport status stands for
Outcome(status) ==
    CASE status \in {200, 201, 204} -> "Ok"
      [] status = 400 -> "ValidationFailure"
      [] status = 401 -> "NotAuthenticated"
      [] status = 403 -> "NotOwner"
      [] status = 404 -> "NotFound"
      [] status = 409 -> "Conflict"
      [] status = 500 -> "InternalFailure"
      [] OTHER -> "None"

Callers == {Anonymous} \cup users

\* The slot a newly accepted request takes (0: none is free)
FreeRid ==
    IF \E r \in 1..MaxInflight : r \notin DOMAIN inflight
    THEN CHOOSE r \in 1..MaxInflight :
             r \notin DOMAIN inflight /\ \A q \in 1..(r - 1) : q \in DOMAIN inflight
    ELSE 0

CanStart == Cardinality(DOMAIN inflight) < MaxInflight

Start(req) == inflight' = Save(inflight, FreeRid, req)

Finish(rid) == inflight' = Remove(inflight, {rid})

(* --------------------------- users, profiles -------------------------- *)

\* signals.create_user_profile: UserProfile.objects.create(user=instance)
create_user_profile(u) ==
    /\ profiles' = Save(profiles, nextId.profile,
                        [user |-> u, full_name |-> "", profile_picture |-> ""])
    /\ nextId' = [nextId EXCEPT !.profile = @ + 1, !.user = @ + 1]

\* A User row is saved for the first time (admin, shell, registration):
\* post_save runs create_user_profile, then save_user_profile, which
\* re-saves the profile it finds unchanged.
CreateUser ==
    /\ nextId.user <= MaxUsers
    /\ users' = users \cup {nextId.user}
    /\ create_user_profile(nextId.user)
    /\ resp' = NoResp
    /\ UNCHANGED <<events, rsvps, reviews, inflight>>

(* ------------------------------- events ------------------------------- *)

\* get_queryset without its visibility filter
VisibleUnfiltered(c, e) == e \in DOMAIN events

\* EventViewSet.get_queryset: the rows the caller may address
Visible(c, e) ==
    /\ e \in DOMAIN events
    /\ IF ~is_authenticated(c)
       THEN events[e].is_public
       ELSE events[e].is_public \/ events[e].organizer = c

ScopeEvents(c) == {e \in DOMAIN events : Visible(c, e)}

\* has_object_permission that lets every method through
AnyoneMayWrite(method, c, e) == TRUE

\* IsOrganizerOrReadOnly.has_object_permission
IsOrganizerOrReadOnly(method, c, e) ==
    IF method \in SAFE_METHODS THEN TRUE ELSE events[e].organizer = c

\* self.instance is None on create
NoInstance == [start_time |-> NoTime, end_time |-> NoTime]

\* validate that compares only when the body carries both times, as
\* EventDetailSerializer.validate does
ValidTimesBothSupplied(d, inst) ==
    ~(Has(d, "start_time") /\ Has(d, "end_time") /\ d.end_time <= d.start_time)

\* EventCreateUpdateSerializer.validate
ValidTimes(d, inst) ==
    LET start == IF Get(d, "start_time", NoTime) # NoTime
                 THEN d.start_time ELSE inst.start_time
        end == IF Get(d, "end_time", NoTime) # NoTime
               THEN d.end_time ELSE inst.end_time
    IN ~(start # NoTime /\ end # NoTime /\ end <= start)

\* Field-level validation of EventCreateUpdateSerializer: start_time and
\* end_time are required unless the update is partial.
EventFieldsOk(d, partial) ==
    partial \/ (Has(d, "start_time") /\ Has(d, "end_time"))

EventFields == {"start_time", "end_time", "is_public"}

\* perform_create: serializer.save(organizer=self.request.user)
NewEvent(c, d) ==
    [organizer |-> c, start_time |-> d.start_time, end_time |-> d.end_time,
     is_public |-> Get(d, "is_public", TRUE)]

EventList(c) ==
    /\ resp' = Response("event_list", c, 0, 200, ScopeEvents(c))
    /\ UNCHANGED <<users, profiles, events, rsvps, reviews, nextId, inflight>>

\* Event.rsvp_count: self.rsvps.filter(status='Going').count()
rsvp_count(e) ==
    Cardinality({k \in DOMAIN rsvps : rsvps[k].event = e /\ rsvps[k].status = "Going"})

\* self.reviews.all(): the rows the related manager selects
EventReviews(e) == {k \in DOMAIN reviews : reviews[k].event = e}

\* sum(r.rating for r in reviews) over the fetched rows
RECURSIVE SumRatings(_)
SumRatings(rows) ==
    IF rows = {} THEN 0
    ELSE LET k == CHOOSE k \in rows : TRUE
         IN reviews[k].rating + SumRatings(rows \ {k})

\* round(total / count, 1), in tenths.  The float quotient rounds to the
\* nearer tenth; a quotient halfway between two tenths is an exact binary
\* fraction for every count below 20, and round() then takes the even one.
RoundTenths(total, count) ==
    LET q == (10 * total) \div count
        r == (10 * total) % count
    IN IF 2 * r < count THEN q
       ELSE IF 2 * r > count THEN q + 1
       ELSE IF q % 2 = 0 THEN q ELSE q + 1

\* None, for a value that is <<v>> when present
None == <<>>

\* Event.average_rating after reviews.exists() has answered: the rows are
\* fetched by the iteration of sum() and counted from the fetched result.
\* No row fetched makes the division raise ZeroDivisionError.
ZeroDivisionError(e) == EventReviews(e) = {}

average_rating(e) ==
    <<RoundTenths(SumRatings(EventReviews(e)), Cardinality(EventReviews(e)))>>

\* retrieve: get_object(), then EventDetailSerializer reads rsvp_count and
\* asks reviews.exists().  With no review the representation is complete;
\* otherwise the request waits in flight for the SELECT of the reviews.
EventRetrieve(c, e) ==
    /\ IF ~Visible(c, e)
       THEN /\ resp' = Response("event_retrieve", c, e, 404, {})
            /\ UNCHANGED inflight
       ELSE IF ~(\E k \in EventReviews(e) : TRUE)
       THEN /\ resp' = Response("event_retrieve", c, e, 200,
                        [rsvp_count |-> rsvp_count(e), average_rating |-> None])
            /\ UNCHANGED inflight
       ELSE /\ CanStart
            /\ Start([op |-> "event_retrieve", caller |-> c, pk |-> e,
                      rsvp_count |-> rsvp_count(e)])
            /\ resp' = NoResp
    /\ UNCHANGED <<users, profiles, events, rsvps, reviews, nextId>>

\* The rest of average_rating: the reviews are fetched, summed and counted
EventRetrieveAverage(rid) ==
    /\ rid \in DOMAIN inflight
    /\ inflight[rid].op = "event_retrieve"
    /\ LET r == inflight[rid]
       IN resp' = IF ZeroDivisionError(r.pk)
                  THEN Response("event_retrieve", r.caller, r.pk, 500, {})
                  ELSE Response("event_retrieve", r.caller, r.pk, 200,
                           [rsvp_count |-> r.rsvp_count,
                            average_rating |-> average_rating(r.pk)])
    /\ Finish(rid)
    /\ UNCHANGED <<users, profiles, events, rsvps, reviews, nextId>>

EventCreate(c, d) ==
    LET status == IF ~is_authenticated(c) THEN 401
                  ELSE IF ~EventFieldsOk(d, FALSE) THEN 400
                  ELSE IF ~ValidTimes(d, NoInstance) THEN 400
                  ELSE 201
    IN /\ status = 201 => nextId.event <= MaxEvents
       /\ IF status = 201
          THEN /\ events' = Save(events, nextId.event, NewEvent(c, d))
               /\ nextId' = [nextId EXCEPT !.event = @ + 1]
          ELSE UNCHANGED <<events, nextId>>
       /\ resp' = Response("event_create", c, 0, status, {})
       /\ UNCHANGED <<users, profiles, rsvps, reviews, inflight>>

\* update / partial_update up to the serializer's save(): permission,
\* get_object() and validation.  The validated instance waits in flight for
\* its UPDATE.
EventUpdateStatus(c, e, d) ==
    IF ~is_authenticated(c) THEN 401
    ELSE IF ~Visible(c, e) THEN 404
    ELSE IF ~IsOrganizerOrReadOnly(d.method, c, e) THEN 403
    ELSE IF ~EventFieldsOk(d, d.method = "PATCH") THEN 400
    ELSE IF ~ValidTimes(d, events[e]) THEN 400
    ELSE 200

EventUpdate(c, e, d) ==
    LET status == EventUpdateStatus(c, e, d)
    IN /\ status = 200 => CanStart
       /\ IF status = 200
          THEN /\ Start([op |-> "event_update", caller |-> c, pk |-> e,
                         row |-> Apply(events[e], d, EventFields)])
               /\ resp' = NoResp
          ELSE /\ resp' = Response("event_update", c, e, status, {})
               /\ UNCHANGED inflight
       /\ UNCHANGED <<users, profiles, events, rsvps, reviews, nextId>>

\* serializer.save() of an update: instance.save()
EventUpdateSave(rid) ==
    /\ rid \in DOMAIN inflight
    /\ inflight[rid].op = "event_update"
    /\ events' = Save(events, inflight[rid].pk, inflight[rid].row)
    /\ resp' = Response("event_update", inflight[rid].caller, inflight[rid].pk, 200, {})
    /\ Finish(rid)
    /\ UNCHANGED <<users, profiles, rsvps, reviews, nextId>>

\* destroy without IsAuthenticatedOrReadOnly among the permission classes
EventDestroyStatusNoAuth(c, e) ==
    IF ~Visible(c, e) THEN 404
    ELSE IF ~IsOrganizerOrReadOnly("DELETE", c, e) THEN 403
    ELSE 204

EventDestroyStatus(c, e) ==
    IF ~is_authenticated(c) THEN 401
    ELSE IF ~Visible(c, e) THEN 404
    ELSE IF ~IsOrganizerOrReadOnly("DELETE", c, e) THEN 403
    ELSE 204

\* destroy: instance.delete(), with the on_delete=CASCADE of RSVP.event and
\* Review.event
EventDestroy(c, e) ==
    LET status == EventDestroyStatus(c, e)
    IN /\ IF status = 204
          THEN /\ events' = Remove(events, {e})
               /\ rsvps' = Remove(rsvps, {k \in DOMAIN rsvps : rsvps[k].event = e})
               /\ reviews' = Remove(reviews, {k \in DOMAIN reviews : reviews[k].event = e})
          ELSE UNCHANGED <<events, rsvps, reviews>>
       /\ resp' = Response("event_destroy", c, e, status, {})
       /\ UNCHANGED <<users, profiles, nextId, inflight>>

(* -------------------------------- RSVPs ------------------------------- *)

\* An RSVP table without the unique_together constraint
RsvpUnconstrained(pk, e, u) == TRUE

\* RSVP.Meta.unique_together = ['event', 'user'], as the database enforces
\* it on INSERT and UPDATE of row pk
RsvpUnique(pk, e, u) ==
    \A k \in DOMAIN rsvps \ {pk} : ~(rsvps[k].event = e /\ rsvps[k].user = u)

\* RSVPSerializer.validate_status, run when the body carries a status
validate_status(d) == Has(d, "status") => d.status \in STATUS_CHOICES

\* The rows RSVP.objects.get(event=event, user=user) matches
RsvpRows(e, u) == {k \in DOMAIN rsvps : rsvps[k].event = e /\ rsvps[k].user = u}

\* defaults={'status': request.data.get('status', 'Maybe')}
RsvpDefaults(d) == Get(d, "status", DefaultStatus)

\* The "not created" branch up to serializer.save(): the partial update is
\* validated against the instance that get() returned.
RsvpValidated(rid, c, e, d, k) ==
    IF validate_status(d)
    THEN /\ inflight' = Save(inflight, rid,
                 [op |-> "rsvp", pc |-> "save", caller |-> c, event |-> e, data |-> d,
                  pk |-> k, row |-> Apply(rsvps[k], d, {"status"})])
         /\ resp' = NoResp
    ELSE /\ inflight' = Remove(inflight, {rid})
         /\ resp' = Response("rsvp", c, e, 400, {})

\* rsvp, POST or PATCH (the handler does not branch on the method):
\* permission, get_object() and the SELECT of get_or_create.
Rsvp(c, e, d) ==
    LET rows == RsvpRows(e, c)
    IN /\ UNCHANGED <<users, profiles, events, rsvps, reviews, nextId>>
       /\ IF ~is_authenticated(c)
          THEN resp' = Response("rsvp", c, e, 401, {}) /\ UNCHANGED inflight
          ELSE IF ~Visible(c, e)
          THEN resp' = Response("rsvp", c, e, 404, {}) /\ UNCHANGED inflight
          ELSE IF Cardinality(rows) > 1
          THEN resp' = Response("rsvp", c, e, 500, {}) /\ UNCHANGED inflight
          ELSE IF rows # {}
          THEN /\ validate_status(d) => CanStart
               /\ RsvpValidated(FreeRid, c, e, d, CHOOSE k \in rows : TRUE)
          ELSE /\ CanStart
               /\ nextId.rsvp <= MaxRsvps
               /\ Start([op |-> "rsvp", pc |-> "create", caller |-> c, event |-> e,
                         data |-> d, pk |-> 0, row |-> [status |-> RsvpDefaults(d)]])
               /\ resp' = NoResp

\* The INSERT of get_or_create.  On an IntegrityError get_or_create looks
\* the row up again and returns it as not created; when that finds nothing
\* the error propagates.
RsvpCreate(rid) ==
    /\ rid \in DOMAIN inflight
    /\ inflight[rid].op = "rsvp" /\ inflight[rid].pc = "create"
    /\ LET r == inflight[rid]
           rows == RsvpRows(r.event, r.caller)
       IN IF r.event \in DOMAIN events /\ RsvpUnique(0, r.event, r.caller)
          THEN /\ nextId.rsvp <= MaxRsvps
               /\ rsvps' = Save(rsvps, nextId.rsvp,
                       [event |-> r.event, user |-> r.caller, status |-> r.row.status])
               /\ nextId' = [nextId EXCEPT !.rsvp = @ + 1]
               /\ resp' = Response("rsvp", r.caller, r.event, 201, {})
               /\ Finish(rid)
          ELSE IF Cardinality(rows) = 1
          THEN /\ RsvpValidated(rid, r.caller, r.event, r.data, CHOOSE k \in rows : TRUE)
               /\ UNCHANGED <<rsvps, nextId>>
          ELSE /\ resp' = Response("rsvp", r.caller, r.event, 500, {})
               /\ Finish(rid)
               /\ UNCHANGED <<rsvps, nextId>>
    /\ UNCHANGED <<users, profiles, events, reviews>>

\* serializer.save() of the "not created" branch: instance.save()
RsvpSave(rid) ==
    /\ rid \in DOMAIN inflight
    /\ inflight[rid].op = "rsvp" /\ inflight[rid].pc = "save"
    /\ LET r == inflight[rid]
       IN IF r.pk \in DOMAIN rsvps
             \/ (r.row.event \in DOMAIN events /\ RsvpUnique(r.pk, r.row.event, r.row.user))
          THEN /\ rsvps' = Save(rsvps, r.pk, r.row)
               /\ resp' = Response("rsvp", r.caller, r.event, 200, {})
          ELSE /\ resp' = Response("rsvp", r.caller, r.event, 500, {})
               /\ UNCHANGED rsvps
    /\ Finish(rid)
    /\ UNCHANGED <<users, profiles, events, reviews, nextId>>

\* RSVPViewSet (read only): the caller's own RSVPs
RsvpList(c) ==
    /\ resp' = IF ~is_authenticated(c)
               THEN Response("rsvp_list", c, 0, 401, {})
               ELSE Response("rsvp_list", c, 0, 200,
                             {k \in DOMAIN rsvps : rsvps[k].user = c})
    /\ UNCHANGED <<users, profiles, events, rsvps, reviews, nextId, inflight>>

(* ------------------------------- reviews ------------------------------ *)

\* Review.Meta.unique_together = ['event', 'user']
ReviewUnique(pk, e, u) ==
    \A k \in DOMAIN reviews \ {pk} : ~(reviews[k].event = e /\ reviews[k].user = u)

\* Review.objects.filter(event=event, user=user).exists()
ReviewExists(e, u) ==
    \E k \in DOMAIN reviews : reviews[k].event = e /\ reviews[k].user = u

\* ReviewSerializer.validate_rating
validate_rating(value) == MinRating <= value /\ value <= MaxRating

\* ReviewSerializer field validation: rating is required unless partial
ReviewFieldsOk(d, partial) ==
    /\ partial \/ Has(d, "rating")
    /\ Has(d, "rating") => validate_rating(d.rating)

\* ReviewSerializer.create: user and event come from the context
ReviewSerializerCreate(c, e, d) ==
    [event |-> e, user |-> c, rating |-> d.rating, comment |-> Get(d, "comment", "")]

\* ModelSerializer.update for ReviewSerializer: event and user are read
\* only, while the write-only user_id is validated and set on the instance.
ReviewSerializerUpdate(inst, d) ==
    [Apply(inst, d, {"rating", "comment"}) EXCEPT !.user = Get(d, "user_id", @)]

\* EventViewSet.reviews, GET
EventReviewsList(c, e) ==
    /\ resp' = IF ~Visible(c, e)
               THEN Response("event_reviews_list", c, e, 404, {})
               ELSE Response("event_reviews_list", c, e, 200,
                             {k \in DOMAIN reviews : reviews[k].event = e})
    /\ UNCHANGED <<users, profiles, events, rsvps, reviews, nextId, inflight>>

EventReviewsPostStatus(c, e, d) ==
    IF ~is_authenticated(c) THEN 401
    ELSE IF ~Visible(c, e) THEN 404
    ELSE IF ReviewExists(e, c) THEN 400
    ELSE IF ~ReviewFieldsOk(d, FALSE) THEN 400
    ELSE 201

\* EventViewSet.reviews, POST, up to serializer.save()
EventReviewsPost(c, e, d) ==
    LET status == EventReviewsPostStatus(c, e, d)
    IN /\ status = 201 => CanStart /\ nextId.review <= MaxReviews
       /\ IF status = 201
          THEN /\ Start([op |-> "review_create", caller |-> c, pk |-> e,
                         row |-> ReviewSerializerCreate(c, e, d)])
               /\ resp' = NoResp
          ELSE /\ resp' = Response("event_reviews_post", c, e, status, {})
               /\ UNCHANGED inflight
       /\ UNCHANGED <<users, profiles, events, rsvps, reviews, nextId>>

\* serializer.save() of EventViewSet.reviews: the INSERT; an IntegrityError
\* is not handled
ReviewInsert(rid) ==
    /\ rid \in DOMAIN inflight
    /\ inflight[rid].op = "review_create"
    /\ LET r == inflight[rid]
       IN IF r.pk \in DOMAIN events /\ ReviewUnique(0, r.row.event, r.row.user)
          THEN /\ nextId.review <= MaxReviews
               /\ reviews' = Save(reviews, nextId.review, r.row)
               /\ nextId' = [nextId EXCEPT !.review = @ + 1]
               /\ resp' = Response("event_reviews_post", r.caller, r.pk, 201, {})
          ELSE /\ resp' = Response("event_reviews_post", r.caller, r.pk, 500, {})
               /\ UNCHANGED <<reviews, nextId>>
    /\ Finish(rid)
    /\ UNCHANGED <<users, profiles, events, rsvps>>

\* ReviewViewSet.create with perform_create.  serializer.save(user, event)
\* ends in ReviewSerializer.create, which reads self.context['event']; the
\* viewset's serializer context holds no 'event', so the KeyError ends the
\* request before any INSERT.
ReviewCreateStatus(c, d) ==
    IF ~is_authenticated(c) THEN 401
    ELSE IF ~ReviewFieldsOk(d, FALSE) THEN 400
    ELSE IF Get(d, "event", 0) \notin DOMAIN events THEN 404
    ELSE IF ReviewExists(d.event, c) THEN 400
    ELSE 500

ReviewCreate(c, d) ==
    /\ resp' = Response("review_create", c, Get(d, "event", 0), ReviewCreateStatus(c, d), {})
    /\ UNCHANGED <<users, profiles, events, rsvps, reviews, nextId, inflight>>

\* ReviewViewSet.update (partial_update goes through it too), then
\* UpdateModelMixin.update; the UPDATE fails on a user_id that is no user
\* or that already reviewed the event
ReviewUpdateStatus(c, r, d) ==
    IF ~is_authenticated(c) THEN 401
    ELSE IF r \notin DOMAIN reviews THEN 404
    ELSE IF reviews[r].user # c THEN 403
    ELSE IF ~ReviewFieldsOk(d, d.method = "PATCH") THEN 400
    ELSE LET row == ReviewSerializerUpdate(reviews[r], d)
         IN IF row.user \in users /\ ReviewUnique(r, row.event, row.user)
            THEN 200 ELSE 500

ReviewUpdate(c, r, d) ==
    LET status == ReviewUpdateStatus(c, r, d)
    IN /\ IF status = 200
          THEN reviews' = Save(reviews, r, ReviewSerializerUpdate(reviews[r], d))
          ELSE UNCHANGED reviews
       /\ resp' = Response("review_update", c, r, status, {})
       /\ UNCHANGED <<users, profiles, events, rsvps, nextId, inflight>>

ReviewDestroyStatus(c, r) ==
    IF ~is_authenticated(c) THEN 401
    ELSE IF r \notin DOMAIN reviews THEN 404
    ELSE IF reviews[r].user # c THEN 403
    ELSE 204

ReviewDestroy(c, r) ==
    LET status == ReviewDestroyStatus(c, r)
    IN /\ IF status = 204
          THEN reviews' = Remove(reviews, {r})
          ELSE UNCHANGED reviews
       /\ resp' = Response("review_destroy", c, r, status, {})
       /\ UNCHANGED <<users, profiles, events, rsvps, nextId, inflight>>

(* ------------------------------ profiles ------------------------------ *)

\* URLField validation of profile_picture (blank=True)
ValidUrls == {"", "http://pic"}

ProfileFieldsOk(d) == Has(d, "profile_picture") => d.profile_picture \in ValidUrls

ProfileFields == {"full_name", "profile_picture"}

ProfileRetrieve(c, p) ==
    /\ resp' = Response("profile_retrieve", c, p,
                        IF p \in DOMAIN profiles THEN 200 ELSE 404, {})
    /\ UNCHANGED <<users, profiles, events, rsvps, reviews, nextId, inflight>>

\* create: the serializer has no user field, so the INSERT carries a NULL
\* user and fails on the NOT NULL column of the OneToOneField
ProfileCreateStatus(c, d) ==
    IF ~is_authenticated(c) THEN 401
    ELSE IF ~ProfileFieldsOk(d) THEN 400
    ELSE 500

ProfileCreate(c, d) ==
    /\ resp' = Response("profile_create", c, 0, ProfileCreateStatus(c, d), {})
    /\ UNCHANGED <<users, profiles, events, rsvps, reviews, nextId, inflight>>

\* update / partial_update: get_object(), is_valid(), then perform_update
ProfileUpdateStatus(c, p, d) ==
    IF ~is_authenticated(c) THEN 401
    ELSE IF p \notin DOMAIN profiles THEN 404
    ELSE IF ~ProfileFieldsOk(d) THEN 400
    ELSE IF profiles[p].user # c THEN 403
    ELSE 200

ProfileUpdate(c, p, d) ==
    LET status == ProfileUpdateStatus(c, p, d)
    IN /\ IF status = 200
          THEN profiles' = Save(profiles, p, Apply(profiles[p], d, ProfileFields))
          ELSE UNCHANGED profiles
       /\ resp' = Response("profile_update", c, p, status, {})
       /\ UNCHANGED <<users, events, rsvps, reviews, nextId, inflight>>

\* destroy: ModelViewSet's own, which perform_update does not guard
ProfileDestroyStatus(c, p) ==
    IF ~is_authenticated(c) THEN 401
    ELSE IF p \notin DOMAIN profiles THEN 404
    ELSE 204

ProfileDestroy(c, p) ==
    LET status == ProfileDestroyStatus(c, p)
    IN /\ IF status = 204
          THEN profiles' = Remove(profiles, {p})
          ELSE UNCHANGED profiles
       /\ resp' = Response("profile_destroy", c, p, status, {})
       /\ UNCHANGED <<users, events, rsvps, reviews, nextId, inflight>>

(* --------------------------- request bodies --------------------------- *)

\* A body field that may be left out
Opt(f, S) == {<<>>} \cup {f :> v : v \in S}

Times == 1..MaxTime

EventIds == 1..MaxEvents

ReviewIds == 1..MaxReviews

ProfileIds == 1..MaxUsers

\* Event bodies over the given methods, times and visibility flags
EventBodies(M, T, P) ==
    {[method |-> m] @@ a @@ b @@ p :
        m \in M, a \in Opt("start_time", T), b \in Opt("end_time", T),
        p \in Opt("is_public", P)}

RsvpBodies(S) == {[method |-> m] @@ s : m \in {"POST"}, s \in Opt("status", S)}

ReviewBodies(M, R, C, U, E) ==
    {[method |-> m] @@ r @@ c @@ u @@ e :
        m \in M, r \in Opt("rating", R), c \in Opt("comment", C),
        u \in Opt("user_id", U), e \in Opt("event", E)}

ProfileBodies(M, N, U) ==
    {[method |-> m] @@ n @@ u :
        m \in M, n \in Opt("full_name", N), u \in Opt("profile_picture", U)}

(* ------------------------- the event subsystem ------------------------ *)

Init ==
    /\ users = {}
    /\ profiles = <<>>
    /\ events = <<>>
    /\ rsvps = <<>>
    /\ reviews = <<>>
    /\ nextId = [user |-> 1, profile |-> 1, event |-> 1, rsvp |-> 1, review |-> 1]
    /\ inflight = <<>>
    /\ resp = NoResp

\* Bodies that reach every branch of a handler without spanning the times;
\* the last ones carry a client-supplied organizer
SmallEventBodies(M) ==
    {[method |-> m, start_time |-> 1, end_time |-> 2] @@ p :
        m \in M, p \in Opt("is_public", {FALSE})}
    \cup {[method |-> m, start_time |-> 2, end_time |-> 1] : m \in M}
    \cup {[method |-> m, start_time |-> 1, end_time |-> 2, organizer |-> o] :
             m \in M, o \in 1..MaxUsers}

EventCreateBodies ==
    EventBodies({"POST"}, Times, {FALSE}) \cup SmallEventBodies({"POST"})

EventUpdateBodies ==
    EventBodies({"PUT", "PATCH"}, Times, {}) \cup SmallEventBodies({"PATCH"})

NextEvents ==
    \/ CreateUser
    \/ \E c \in Callers, d \in EventCreateBodies : EventCreate(c, d)
    \/ \E c \in Callers, e \in EventIds, d \in EventUpdateBodies : EventUpdate(c, e, d)
    \/ \E rid \in DOMAIN inflight : EventUpdateSave(rid)
    \/ \E c \in Callers, e \in EventIds : EventDestroy(c, e)

SpecEvents == Init /\ [][NextEvents]_vars

(* ------------------------- the RSVP subsystem ------------------------- *)

SetupEventBodies == SmallEventBodies({"POST"})

RsvpRequestBodies == RsvpBodies({"Going", "Bogus"})

NextRsvp ==
    \/ CreateUser
    \/ \E c \in Callers, d \in SetupEventBodies : EventCreate(c, d)
    \/ \E c \in Callers, e \in EventIds : EventDestroy(c, e)
    \/ \E c \in Callers, e \in EventIds, d \in RsvpRequestBodies : Rsvp(c, e, d)
    \/ \E rid \in DOMAIN inflight : RsvpCreate(rid)
    \/ \E rid \in DOMAIN inflight : RsvpSave(rid)

SpecRsvp == Init /\ [][NextRsvp]_vars

(* ------------------------ the review subsystem ------------------------ *)

EventReviewBodies == ReviewBodies({"POST"}, {0, 4, 6}, {"good"}, {2}, {})

ReviewCreateBodies == ReviewBodies({"POST"}, {4, 6}, {}, {}, EventIds)

ReviewUpdateBodies == ReviewBodies({"PUT", "PATCH"}, {0, 5}, {}, 1..(MaxUsers + 1), {})

NextReviews ==
    \/ CreateUser
    \/ \E c \in Callers, d \in SetupEventBodies : EventCreate(c, d)
    \/ \E c \in Callers, e \in EventIds : EventDestroy(c, e)
    \/ \E c \in Callers, e \in EventIds : EventReviewsList(c, e)
    \/ \E c \in Callers, e \in EventIds, d \in EventReviewBodies : EventReviewsPost(c, e, d)
    \/ \E rid \in DOMAIN inflight : ReviewInsert(rid)
    \/ \E c \in Callers, d \in ReviewCreateBodies : ReviewCreate(c, d)
    \/ \E c \in Callers, r \in ReviewIds, d \in ReviewUpdateBodies : ReviewUpdate(c, r, d)
    \/ \E c \in Callers, r \in ReviewIds : ReviewDestroy(c, r)

SpecReviews == Init /\ [][NextReviews]_vars

(* ------------------------ the profile subsystem ----------------------- *)

ProfileCreateBodies == ProfileBodies({"POST"}, {"Ann"}, {"http://pic", "nope"})

ProfileUpdateBodies == ProfileBodies({"PUT", "PATCH"}, {"Ann"}, {"http://pic", "nope"})

NextProfiles ==
    \/ CreateUser
    \/ \E c \in Callers, p \in ProfileIds : ProfileRetrieve(c, p)
    \/ \E c \in Callers, d \in ProfileCreateBodies : ProfileCreate(c, d)
    \/ \E c \in Callers, p \in ProfileIds : ProfileDestroy(c, p)
    \/ \E c \in Callers, p \in ProfileIds, d \in ProfileUpdateBodies : ProfileUpdate(c, p, d)

SpecProfiles == Init /\ [][NextProfiles]_vars

(* ----------------------- the aggregates of an event ------------------- *)

AggregateRsvpBodies == RsvpBodies({"Going", "Not Going"}) \ {[method |-> "POST"]}

AggregateReviewBodies == ReviewBodies({"POST"}, {4}, {}, {}, {}) \ {[method |-> "POST"]}

AggregateUpdateBodies == ReviewBodies({"PATCH"}, {5}, {}, {}, {}) \ {[method |-> "PATCH"]}

\* One write is served at a time, and one read at a time beside it
NoWrite == \A rid \in DOMAIN inflight : inflight[rid].op = "event_retrieve"

NoRead == \A rid \in DOMAIN inflight : inflight[rid].op # "event_retrieve"

NextAggregates ==
    \/ CreateUser
    \/ \E c \in users :
          EventCreate(c, [method |-> "POST", start_time |-> 1, end_time |-> 2])
    \/ \E c \in users, e \in EventIds, d \in AggregateRsvpBodies :
          NoWrite /\ Rsvp(c, e, d)
    \/ \E rid \in DOMAIN inflight : RsvpCreate(rid)
    \/ \E rid \in DOMAIN inflight : RsvpSave(rid)
    \/ \E c \in users, e \in EventIds, d \in AggregateReviewBodies :
          NoWrite /\ EventReviewsPost(c, e, d)
    \/ \E rid \in DOMAIN inflight : ReviewInsert(rid)
    \/ \E c \in users, r \in ReviewIds, d \in AggregateUpdateBodies :
          ReviewUpdate(c, r, d)
    \/ \E c \in users, r \in ReviewIds : ReviewDestroy(c, r)
    \/ \E c \in Callers, e \in EventIds : NoRead /\ EventRetrieve(c, e)
    \/ \E rid \in DOMAIN inflight : EventRetrieveAverage(rid)

SpecAggregates == Init /\ [][NextAggregates]_vars

(* --------------------------- the whole API ---------------------------- *)

\* Requests are served one at a time, each to completion
Idle == inflight = <<>>

VisibilityBodies ==
    SmallEventBodies({"PUT"}) \cup EventBodies({"PATCH"}, {}, {TRUE, FALSE})

CollectionReviewBodies == ReviewBodies({"POST"}, {5}, {}, {}, EventIds)

Next ==
    \/ CreateUser
    \/ \E c \in Callers : Idle /\ EventList(c)
    \/ \E c \in Callers, e \in EventIds : Idle /\ EventRetrieve(c, e)
    \/ \E rid \in DOMAIN inflight : EventRetrieveAverage(rid)
    \/ \E c \in Callers, d \in SetupEventBodies : Idle /\ EventCreate(c, d)
    \/ \E c \in Callers, e \in EventIds, d \in VisibilityBodies : Idle /\ EventUpdate(c, e, d)
    \/ \E rid \in DOMAIN inflight : EventUpdateSave(rid)
    \/ \E c \in Callers, e \in EventIds : Idle /\ EventDestroy(c, e)
    \/ \E c \in Callers, e \in EventIds : Idle /\ Rsvp(c, e, [method |-> "POST"])
    \/ \E rid \in DOMAIN inflight : RsvpCreate(rid)
    \/ \E rid \in DOMAIN inflight : RsvpSave(rid)
    \/ \E c \in Callers : Idle /\ RsvpList(c)
    \/ \E c \in Callers, e \in EventIds : Idle /\ EventReviewsList(c, e)
    \/ \E c \in Callers, e \in EventIds :
          Idle /\ EventReviewsPost(c, e, [method |-> "POST", rating |-> 5])
    \/ \E rid \in DOMAIN inflight : ReviewInsert(rid)
    \/ \E c \in Callers, d \in CollectionReviewBodies : Idle /\ ReviewCreate(c, d)
    \/ \E c \in Callers, r \in ReviewIds : Idle /\ ReviewUpdate(c, r, [method |-> "PATCH"])
    \/ \E c \in Callers, r \in ReviewIds : Idle /\ ReviewDestroy(c, r)
    \/ \E c \in Callers, p \in ProfileIds : Idle /\ ProfileRetrieve(c, p)
    \/ \E c \in Callers : Idle /\ ProfileCreate(c, [method |-> "POST"])
    \/ \E c \in Callers, p \in ProfileIds : Idle /\ ProfileUpdate(c, p, [method |-> "PATCH"])
    \/ \E c \in Callers, p \in ProfileIds : Idle /\ ProfileDestroy(c, p)

Spec == Init /\ [][Next]_vars

(* ======================= properties of the API ======================== *)

\* The event exists, is private, and the caller is not its organizer
Hidden(c, e) ==
    e \in DOMAIN events /\ ~events[e].is_public /\ events[e].organizer # c

EventReadOps == {"event_retrieve", "event_reviews_list"}

EventWriteOps == {"event_update", "event_destroy", "rsvp", "event_reviews_post"}

WriteOps ==
    EventWriteOps \cup {"event_create", "review_create", "review_update",
                        "review_destroy", "profile_create", "profile_update",
                        "profile_destroy"}

\* C1 as claimed: a private event never appears in the list returned to a
\* caller who is not its organizer, and every operation that caller
\* addresses to it (retrieve, update, delete, rsvp, reviews) returns
\* NotFound.
C1_HiddenAlwaysNotFound ==
    [][/\ resp'.op = "event_list" =>
            \A e \in resp'.body : ~Hidden(resp'.caller, e)
       /\ (resp'.op \in EventReadOps \cup EventWriteOps /\ Hidden(resp'.caller, resp'.pk)) =>
            Outcome(resp'.status) = "NotFound"]_vars

\* C1, amended: the list returned to a caller holds exactly the events that
\* are public or organized by the caller; an operation addressed to a
\* private event of another organizer has the outcome it has for an id that
\* does not exist, which is NotFound for every read and for every
\* authenticated caller, and NotAuthenticated for a write by an anonymous
\* caller; retrieving a public or own event succeeds.
C1_HiddenAsAbsent ==
    [][/\ resp'.op = "event_list" =>
            resp'.body = {e \in DOMAIN events : ~Hidden(resp'.caller, e)}
       /\ (/\ resp'.op \in EventReadOps \cup EventWriteOps
           /\ (resp'.pk \notin DOMAIN events \/ Hidden(resp'.caller, resp'.pk))) =>
            Outcome(resp'.status) =
                IF resp'.op \in EventWriteOps /\ resp'.caller = Anonymous
                THEN "NotAuthenticated" ELSE "NotFound"
       /\ (/\ resp'.op = "event_retrieve"
           /\ resp'.pk \in DOMAIN events
           /\ ~Hidden(resp'.caller, resp'.pk)) =>
            Outcome(resp'.status) = "Ok"]_vars

\* An authenticated caller's rsvp on another organizer's private event was
\* answered NotFound
C1_Witness ==
    /\ resp.op = "rsvp"
    /\ is_authenticated(resp.caller)
    /\ Hidden(resp.caller, resp.pk)
    /\ resp.status = 404

\* C6: every stored event has end_time > start_time, whatever creates,
\* full updates and partial updates are made and however concurrent updates
\* interleave; an update by the organizer whose effective times (the
\* supplied value, or the stored one for a time the body leaves out) give
\* end_time <= start_time is answered ValidationFailure and changes no event.
EffectiveTime(d, row, f) == IF Has(d, f) THEN d[f] ELSE row[f]

C6_EndAfterStart ==
    /\ [](\A e \in DOMAIN events : events[e].end_time > events[e].start_time)
    /\ [][\A e \in DOMAIN events :
            \A d \in EventUpdateBodies :
              (/\ resp'.op = "event_update" /\ resp'.pk = e
               /\ (d.method = "PATCH" \/ (Has(d, "start_time") /\ Has(d, "end_time")))
               /\ EffectiveTime(d, events[e], "end_time")
                     <= EffectiveTime(d, events[e], "start_time")
               /\ EventUpdate(events[e].organizer, e, d)) =>
                (Outcome(resp'.status) = "ValidationFailure" /\ events' = events)]_vars

\* An update was saved while another update of the same event, validated
\* against the earlier stored times, is still in flight
C6_Witness ==
    /\ resp.op = "event_update" /\ resp.status = 200
    /\ \E rid \in DOMAIN inflight :
          /\ inflight[rid].op = "event_update"
          /\ inflight[rid].pk = resp.pk
          /\ resp.pk \in DOMAIN events
          /\ inflight[rid].row.start_time # events[resp.pk].start_time
          /\ inflight[rid].row.end_time # events[resp.pk].end_time

\* C7 as claimed: an update or delete of an event by an authenticated caller
\* who is not its organizer returns NotOwner and leaves the event unchanged.
C7_NonOrganizerAlwaysNotOwner ==
    [][(/\ resp'.op \in {"event_update", "event_destroy"}
        /\ is_authenticated(resp'.caller)
        /\ resp'.pk \in DOMAIN events
        /\ events[resp'.pk].organizer # resp'.caller) =>
          (Outcome(resp'.status) = "NotOwner" /\ events' = events)]_vars

\* C7, amended: an update or delete of an event by an authenticated caller
\* who is not its organizer leaves the event present and unchanged, and
\* returns NotOwner when the event is public and NotFound when it is
\* private; an event leaves the store only by its organizer's delete; an
\* event's organizer is the caller who created it and no request changes it.
C7_NonOrganizerDenied ==
    [][/\ (/\ resp'.op \in {"event_update", "event_destroy"}
           /\ is_authenticated(resp'.caller)
           /\ resp'.pk \in DOMAIN events
           /\ events[resp'.pk].organizer # resp'.caller) =>
             /\ events' = events
             /\ Outcome(resp'.status) =
                  IF events[resp'.pk].is_public THEN "NotOwner" ELSE "NotFound"
       /\ \A e \in DOMAIN events \ DOMAIN events' :
             /\ resp'.op = "event_destroy" /\ resp'.pk = e
             /\ resp'.caller = events[e].organizer
       /\ \A e \in DOMAIN events \cap DOMAIN events' :
             events'[e].organizer = events[e].organizer
       /\ \A e \in DOMAIN events' \ DOMAIN events :
             events'[e].organizer = resp'.caller]_vars

\* A delete by an authenticated caller who is not the organizer was answered
\* NotOwner and the event is still stored
C7_Witness ==
    /\ resp.op = "event_destroy" /\ resp.status = 403
    /\ is_authenticated(resp.caller)
    /\ resp.pk \in DOMAIN events
    /\ events[resp.pk].organizer # resp.caller

\* C8: every write attempt by an anonymous caller is answered
\* NotAuthenticated and changes no record, whether or not its target exists
\* or is visible; no request of an anonymous caller is ever accepted for a
\* later write; NotAuthenticated is never the answer to an authenticated
\* caller, nor NotOwner to an anonymous one.
C8_AnonymousNeverWrites ==
    /\ [](\A rid \in DOMAIN inflight :
             inflight[rid].op \in WriteOps => is_authenticated(inflight[rid].caller))
    /\ [][/\ (resp'.op \in WriteOps /\ resp'.caller = Anonymous) =>
               (Outcome(resp'.status) = "NotAuthenticated" /\ store' = store)
          /\ (resp'.op # "none" /\ is_authenticated(resp'.caller)) =>
               Outcome(resp'.status) # "NotAuthenticated"
          /\ (resp'.op # "none" /\ resp'.caller = Anonymous) =>
               Outcome(resp'.status) # "NotOwner"]_vars

\* An anonymous delete of a stored public event was answered NotAuthenticated
C8_Witness ==
    /\ resp.op = "event_destroy" /\ resp.caller = Anonymous
    /\ resp.status = 401
    /\ resp.pk \in DOMAIN events
    /\ events[resp.pk].is_public

\* C2: there is at most one RSVP row per (event, user), however rsvp
\* requests of the same user on the same event follow or overlap each
\* other; an rsvp request that succeeds leaves exactly one row for its
\* (event, caller), holding the status it supplied (Maybe when it creates the
\* row and supplied none), and when a row for the pair was already stored it
\* is that row, updated in place, with no row inserted.
C2_OneRsvpPerPair ==
    /\ [](\A k1, k2 \in DOMAIN rsvps :
            (rsvps[k1].event = rsvps[k2].event /\ rsvps[k1].user = rsvps[k2].user)
                => k1 = k2)
    /\ [][\A rid \in DOMAIN inflight \ DOMAIN inflight' :
            LET r == inflight[rid]
                before == RsvpRows(r.event, r.caller)
                after == {k \in DOMAIN rsvps' :
                            rsvps'[k].event = r.event /\ rsvps'[k].user = r.caller}
            IN (r.op = "rsvp" /\ resp'.status \in {200, 201}) =>
                 /\ Cardinality(after) = 1
                 /\ Has(r.data, "status") =>
                       \A k \in after : rsvps'[k].status = r.data.status
                 /\ (~Has(r.data, "status") /\ resp'.status = 201) =>
                       \A k \in after : rsvps'[k].status = "Maybe"
                 /\ before # {} => (after = before /\ DOMAIN rsvps' = DOMAIN rsvps)]_vars

\* Two upserts of the same user on the same event overlapped: one has
\* inserted the row while the other, which found none, is about to INSERT
C2_Witness ==
    \E rid \in DOMAIN inflight :
        /\ inflight[rid].op = "rsvp" /\ inflight[rid].pc = "create"
        /\ RsvpRows(inflight[rid].event, inflight[rid].caller) # {}

\* C3: every stored RSVP has a status among Going, Maybe and Not Going.
C3_StatusAlwaysValid ==
    \A k \in DOMAIN rsvps : rsvps[k].status \in {"Going", "Maybe", "Not Going"}

\* C4: a review create by a caller who already has a review on the event
\* fails with Conflict, through either entry point and also in a race, and
\* leaves the reviews unchanged.
C4_DuplicateIsConflict ==
    [][(/\ resp'.op \in {"event_reviews_post", "review_create"}
        /\ is_authenticated(resp'.caller)
        /\ Visible(resp'.caller, resp'.pk)
        /\ ReviewExists(resp'.pk, resp'.caller)) =>
          (Outcome(resp'.status) = "Conflict" /\ reviews' = reviews)]_vars

\* C5: a review's author and event are those of the request that created
\* it, and no later request changes them.
C5_AuthorAndEventFixed ==
    [][/\ \A k \in DOMAIN reviews \cap DOMAIN reviews' :
            /\ reviews'[k].user = reviews[k].user
            /\ reviews'[k].event = reviews[k].event
       /\ \A k \in DOMAIN reviews' \ DOMAIN reviews :
            /\ reviews'[k].user = resp'.caller
            /\ reviews'[k].event = resp'.pk]_vars

\* C9: every user has exactly one profile.
C9_OneProfilePerUser ==
    \A u \in users : Cardinality({p \in DOMAIN profiles : profiles[p].user = u}) = 1

\* C10: an update, partial update or delete of a profile by an
\* authenticated caller who is not its user is denied with NotOwner and
\* leaves the profile stored and unchanged.
C10_OnlyOwnerMutates ==
    [][(/\ resp'.op \in {"profile_update", "profile_destroy"}
        /\ is_authenticated(resp'.caller)
        /\ resp'.pk \in DOMAIN profiles
        /\ profiles[resp'.pk].user # resp'.caller) =>
          (Outcome(resp'.status) = "NotOwner" /\ profiles' = profiles)]_vars

\* The number of RSVP rows on e whose status is exactly Going
GoingCount(e) ==
    Cardinality({k \in DOMAIN rsvps : rsvps[k].event = e}
                    \ {k \in DOMAIN rsvps : rsvps[k].status # "Going"})

\* The sum of the ratings on e, one rating value at a time
RatingTotal(e) ==
    LET n(v) == Cardinality({k \in DOMAIN reviews :
                                reviews[k].event = e /\ reviews[k].rating = v})
    IN n(1) + 2 * n(2) + 3 * n(3) + 4 * n(4) + 5 * n(5)

RatingCount(e) == Cardinality({k \in DOMAIN reviews : reviews[k].event = e})

\* a, in tenths, is the mean rating of e to one decimal: no tenth is nearer
MeanToOneDecimal(a, e) ==
    LET diff == 10 * RatingTotal(e) - RatingCount(e) * a
    IN 2 * diff <= RatingCount(e) /\ -2 * diff <= RatingCount(e)

\* C11: whatever RSVP upserts and review creates, updates and deletes have
\* run or are running, a read of an event the caller may see succeeds; the
\* rsvp_count it reads is the number of RSVP rows on the event with status
\* exactly Going; the average_rating it reads is absent exactly when the
\* event has no review, and is otherwise sum(ratings)/count(ratings)
\* rounded to one decimal ([4,5] gives 4.5, [3,3,4] gives 3.3).
C11_AggregatesMatchStore ==
    /\ RoundTenths(4 + 5, 2) = 45
    /\ RoundTenths(3 + 3 + 4, 3) = 33
    /\ [][/\ \A rid \in DOMAIN inflight' \ DOMAIN inflight :
               inflight'[rid].op = "event_retrieve" =>
                   inflight'[rid].rsvp_count = GoingCount(inflight'[rid].pk)
          /\ (/\ resp'.op = "event_retrieve"
              /\ Visible(resp'.caller, resp'.pk)) =>
                /\ Outcome(resp'.status) = "Ok"
                /\ IF DOMAIN inflight' = DOMAIN inflight
                   THEN resp'.body.rsvp_count = GoingCount(resp'.pk)
                   ELSE \E rid \in DOMAIN inflight \ DOMAIN inflight' :
                           resp'.body.rsvp_count = inflight[rid].rsvp_count
                /\ resp'.body.average_rating = None <=> RatingCount(resp'.pk) = 0
                /\ resp'.body.average_rating # None =>
                       MeanToOneDecimal(resp'.body.average_rating[1], resp'.pk)]_vars

\* Exactly one review is stored for (e, c), with this rating and comment
OneReviewStored(e, c, rating, comment) ==
    LET rows == {k \in DOMAIN reviews' :
                    reviews'[k].event = e /\ reviews'[k].user = c}
    IN /\ Cardinality(rows) = 1
       /\ \A k \in rows : reviews'[k].rating = rating /\ reviews'[k].comment = comment

\* C12: an authenticated caller with no review on an event they may see,
\* who submits a rating in [1,5], gets a successful create through the
\* reviews sub-action of the event and through the reviews collection with
\* the event id in the body, and afterwards exactly one review is stored
\* for (event, caller) with the submitted rating and comment; a rating
\* outside [1,5] is answered ValidationFailure and no review is written.
C12_CreateSucceeds ==
    [][/\ \A c \in users, d \in ReviewCreateBodies :
            (/\ resp'.op = "review_create" /\ resp'.caller = c
             /\ Has(d, "rating") /\ Has(d, "event") /\ resp'.pk = d.event
             /\ Visible(c, d.event)
             /\ ReviewCreate(c, d)) =>
               IF ~validate_rating(d.rating)
               THEN Outcome(resp'.status) = "ValidationFailure" /\ reviews' = reviews
               ELSE ~ReviewExists(d.event, c) =>
                       /\ Outcome(resp'.status) = "Ok"
                       /\ OneReviewStored(d.event, c, d.rating, Get(d, "comment", ""))
       /\ \A c \in users, e \in EventIds, d \in EventReviewBodies :
            (/\ resp'.op = "event_reviews_post" /\ resp'.caller = c /\ resp'.pk = e
             /\ Has(d, "rating")
             /\ Visible(c, e)
             /\ EventReviewsPost(c, e, d)) =>
               IF ~validate_rating(d.rating)
               THEN Outcome(resp'.status) = "ValidationFailure" /\ reviews' = reviews
               ELSE ReviewExists(e, c)
       /\ \A rid \in DOMAIN inflight \ DOMAIN inflight' :
            LET r == inflight[rid]
            IN (/\ r.op = "review_create"
                /\ Visible(r.caller, r.pk)
                /\ ~ReviewExists(r.pk, r.caller)) =>
                  /\ Outcome(resp'.status) = "Ok"
                  /\ validate_rating(r.row.rating)
                  /\ OneReviewStored(r.pk, r.caller, r.row.rating, r.row.comment)]_vars

====
